---- MODULE Spec2Model ----
(***************************************************************************)
(* Model of backend/match.py: the glasses matching pipeline (clip_match),  *)
(* its validation gate, shape analyzer, attribute extractor and the        *)
(* simple-match fallback.                                                   *)
(*                                                                         *)
(* Numbers are fixed point.  Probabilities, similarity scores and          *)
(* confidences are in thousandths (0.25 is 250); aspect ratios, tint       *)
(* opacity, frame scale and metalness in hundredths.  A quotient that is   *)
(* not rounded yet is a pair <<numerator, denominator>>.  A file name is a *)
(* sequence of one-character strings.                                      *)
(***************************************************************************)
EXTENDS Integers, Sequences, FiniteSets, TLC

(***************************************************************************)
(* Characters and file names                                               *)
(***************************************************************************)

\* The characters file names are made of, in code point order.
CodePoints ==
    << "-", ".", "0", "1", "2", "3", "4", "5", "6", "7", "8", "9",
       "A", "B", "C", "D", "E", "F", "G", "H", "I", "J", "K", "L", "M",
       "N", "O", "P", "Q", "R", "S", "T", "U", "V", "W", "X", "Y", "Z",
       "_",
       "a", "b", "c", "d", "e", "f", "g", "h", "i", "j", "k", "l", "m",
       "n", "o", "p", "q", "r", "s", "t", "u", "v", "w", "x", "y", "z" >>

CharSet == { CodePoints[i] : i \in 1..Len(CodePoints) }

\* Position of a character in code point order (order-isomorphic to ord()).
Ord == [ c \in CharSet |-> CHOOSE i \in 1..Len(CodePoints) : CodePoints[i] = c ]

UpperCase == { CodePoints[i] : i \in 13..38 }

\* str.lower() on one character: "A".."Z" map to "a".."z", 27 places on.
LowerChar == [ c \in CharSet |-> IF c \in UpperCase THEN CodePoints[Ord[c] + 27] ELSE c ]

\* str.lower()
lower(s) == [ i \in 1..Len(s) |-> LowerChar[s[i]] ]

\* Python's str < str: code point order, a proper prefix sorts first.
RECURSIVE StrLess(_, _)
StrLess(a, b) ==
    IF b = << >> THEN FALSE
    ELSE IF a = << >> THEN TRUE
    ELSE IF Ord[a[1]] # Ord[b[1]] THEN Ord[a[1]] < Ord[b[1]]
    ELSE StrLess(Tail(a), Tail(b))

\* kw in s: substring test.
contains(s, kw) ==
    \E i \in 0..(Len(s) - Len(kw)) : SubSeq(s, i + 1, i + Len(kw)) = kw

\* Index of the last "." of s that starts an extension, or 0: the last dot
\* counts only when a character other than "." comes before it.
ExtIndex(s) ==
    LET dots == { i \in 1..Len(s) : s[i] = "." } IN
    IF dots = {} THEN 0
    ELSE LET d == CHOOSE i \in dots : \A j \in dots : j <= i IN
         IF \E j \in 1..(d - 1) : s[j] # "." THEN d ELSE 0

\* os.path.splitext(s): <<root, ext>>.
splitext(s) ==
    LET d == ExtIndex(s) IN
    IF d = 0 THEN << s, << >> >>
    ELSE << SubSeq(s, 1, d - 1), SubSeq(s, d, Len(s)) >>

(***************************************************************************)
(* Arithmetic                                                              *)
(***************************************************************************)

RECURSIVE SeqSum(_)
SeqSum(s) == IF s = << >> THEN 0 ELSE Head(s) + SeqSum(Tail(s))

Max(a, b) == IF a >= b THEN a ELSE b

\* F applied to the value of v, v being evaluated once.
With(v, F(_)) == CHOOSE r \in { F(x) : x \in { v } } : TRUE

\* round(): the integer nearest to num / den (num >= 0, den > 0), a tie
\* going to the even neighbour.
RoundHalfEven(num, den) ==
    LET q == num \div den
        r == num % den
    IN  IF 2 * r < den THEN q
        ELSE IF 2 * r > den THEN q + 1
        ELSE IF q % 2 = 0 THEN q ELSE q + 1

RECURSIVE SqrtIter(_, _, _)
SqrtIter(n, lo, hi) ==
    IF lo = hi THEN lo
    ELSE LET mid == (lo + hi + 1) \div 2 IN
         IF mid * mid <= n THEN SqrtIter(n, mid, hi) ELSE SqrtIter(n, lo, mid - 1)

\* floor(sqrt(n)) for 0 <= n < 2^31
ISqrt(n) == SqrtIter(n, 0, 46340)

(***************************************************************************)
(* list_refs                                                               *)
(***************************************************************************)

EXT_JPG  == << ".", "j", "p", "g" >>
EXT_JPEG == << ".", "j", "p", "e", "g" >>
EXT_PNG  == << ".", "p", "n", "g" >>
EXT_WEBP == << ".", "w", "e", "b", "p" >>
EXT_GLB  == << ".", "g", "l", "b" >>

exts == { EXT_JPG, EXT_JPEG, EXT_PNG, EXT_WEBP }

\* Insert x into the ascending sequence s.
\* x put at its place in the sorted list s, after the names equal to it.
RECURSIVE InsertSorted(_, _)
InsertSorted(x, s) ==
    IF s = << >> THEN << x >>
    ELSE IF StrLess(x, Head(s)) THEN << x >> \o s
    ELSE << Head(s) >> \o InsertSorted(x, Tail(s))

\* The names of s put one by one into the sorted list acc.
RECURSIVE SortFrom(_, _)
SortFrom(s, acc) ==
    IF s = << >> THEN acc
    ELSE CHOOSE r \in { SortFrom(rest, next) :
                          rest \in { Tail(s) },
                          next \in { InsertSorted(Head(s), acc) } } : TRUE

\* The listing in the order os.listdir gave it.
unsorted(s) == s

\* sorted(list of str)
sorted(s) == SortFrom(s, << >>)

HasImageExt(f) == splitext(lower(f))[2] \in exts

\* list_refs() on a state of REF_DIR: isdir is os.path.isdir(REF_DIR), names
\* is os.listdir(REF_DIR) in the order the file system gives the names.
list_refs(dir) ==
    IF ~dir.isdir THEN << >>
    ELSE sorted(SelectSeq(dir.names, HasImageExt))

(***************************************************************************)
(* Images                                                                  *)
(*                                                                         *)
(* An image path is a record of what the code reads from the file:         *)
(*   loads    Image.open(path) succeeds                                    *)
(*   glasses  the summed softmax probability of the glasses prompts; the   *)
(*            non-glasses prompts have the rest of the distribution        *)
(*   pixels   the 100x100 resize as runs [rgb, n] of n equal pixels        *)
(*   center   the 50x50 resize of the center crop, as runs                 *)
(*   gray     what analyze_frame_shape measures on the grayscale resize    *)
(***************************************************************************)

\* 3 * brightness of a pixel: np.mean over the three channels, times 3.
Lum3(rgb) == rgb[1] + rgb[2] + rgb[3]

\* Number of pixels in a sequence of runs.
Count(runs) == SeqSum([ i \in 1..Len(runs) |-> runs[i].n ])

ChannelSum(runs, c) == SeqSum([ i \in 1..Len(runs) |-> runs[i].n * runs[i].rgb[c] ])

ChannelSumSq(runs, c) ==
    SeqSum([ i \in 1..Len(runs) |-> runs[i].n * runs[i].rgb[c] * runs[i].rgb[c] ])

Lum3Sum(runs) == SeqSum([ i \in 1..Len(runs) |-> runs[i].n * Lum3(runs[i].rgb) ])

Lum3SumSq(runs) ==
    SeqSum([ i \in 1..Len(runs) |-> runs[i].n * Lum3(runs[i].rgb) * Lum3(runs[i].rgb) ])

\* The k-th smallest value of channel c (k in 1..Count(runs)).
Kth(runs, c, k) ==
    LET le(v) == SeqSum([ i \in 1..Len(runs) |->
                            IF runs[i].rgb[c] <= v THEN runs[i].n ELSE 0 ])
        lt(v) == SeqSum([ i \in 1..Len(runs) |->
                            IF runs[i].rgb[c] < v THEN runs[i].n ELSE 0 ])
    IN  CHOOSE v \in { runs[i].rgb[c] : i \in 1..Len(runs) } : le(v) >= k /\ lt(v) < k

\* np.median(..., axis=0).astype(int) for channel c: the middle value, or the
\* mean of the two middle values truncated.
MedianInt(runs, c) ==
    LET N == Count(runs) IN
    IF N % 2 = 1 THEN Kth(runs, c, (N + 1) \div 2)
    ELSE (Kth(runs, c, N \div 2) + Kth(runs, c, N \div 2 + 1)) \div 2

\* np.mean(..., axis=0).astype(int) for channel c
MeanInt(runs, c) == ChannelSum(runs, c) \div Count(runs)

(***************************************************************************)
(* extract_glasses_properties                                              *)
(***************************************************************************)

HexDigits == << "0", "1", "2", "3", "4", "5", "6", "7",
                "8", "9", "a", "b", "c", "d", "e", "f" >>

\* f"{v:02x}" for v in 0..255
Hex2(v) == HexDigits[(v \div 16) + 1] \o HexDigits[(v % 16) + 1]

\* f"#{r:02x}{g:02x}{b:02x}"
HexColor(rgb) == "#" \o Hex2(rgb[1]) \o Hex2(rgb[2]) \o Hex2(rgb[3])

DefaultProperties ==
    [ lensColor |-> "#3b82f6", frameColor |-> "#1a1a1a", tintOpacity |-> 50,
      frameScale |-> 100, frameMaterial |-> "plastic", frameMetalness |-> 10 ]

\* A frame mask without its upper limit.
IsDarkRunNoUpperLimit(run) == Lum3(run.rgb) > 30

\* dark_mask: (brightness > 10) & (brightness < 100)
IsDarkRun(run) == Lum3(run.rgb) > 30 /\ Lum3(run.rgb) < 300

\* tint_mask: (center_brightness > 30) & (center_brightness < 200)
IsTintRun(run) == Lum3(run.rgb) > 90 /\ Lum3(run.rgb) < 600

dark_pixels(img) == SelectSeq(img.pixels, IsDarkRun)

tint_pixels(img) == SelectSeq(img.center, IsTintRun)

\* An image adding its frame pixels from 10 of them on.
FrameContributesFromTen(img) == img.loads /\ Count(dark_pixels(img)) >= 10

\* The image adds to all_frame_colors and all_frame_pixels.
FrameContributes(img) == img.loads /\ Count(dark_pixels(img)) > 10

\* The image adds to all_lens_colors.
LensContributes(img) == img.loads /\ Count(tint_pixels(img)) > 5

RECURSIVE Concat(_)
Concat(ss) == IF ss = << >> THEN << >> ELSE Head(ss) \o Concat(Tail(ss))

all_frame_pixels(image_paths) ==
    With(SelectSeq(image_paths, FrameContributes),
         LAMBDA imgs : Concat([ i \in 1..Len(imgs) |-> dark_pixels(imgs[i]) ]))

all_frame_colors(image_paths) ==
    With(SelectSeq(image_paths, FrameContributes),
         LAMBDA imgs :
           [ i \in 1..Len(imgs) |->
               With(dark_pixels(imgs[i]),
                    LAMBDA runs : [ c \in 1..3 |-> MedianInt(runs, c) ]) ])

all_lens_colors(image_paths) ==
    With(SelectSeq(image_paths, LensContributes),
         LAMBDA imgs :
           [ i \in 1..Len(imgs) |->
               With(tint_pixels(imgs[i]),
                    LAMBDA runs : [ c \in 1..3 |-> MeanInt(runs, c) ]) ])

\* np.mean(colors, axis=0).astype(int) over a non-empty list of colors
MeanColor(colors) ==
    [ c \in 1..3 |-> SeqSum([ i \in 1..Len(colors) |-> colors[i][c] ]) \div Len(colors) ]

\* The material decision over the collected frame pixels: <<material, metalness>>.
\* N^2 times a variance is N * sum(x^2) - sum(x)^2, so every comparison of a
\* standard deviation is made on integers; avg_std adds three square roots and
\* is compared on their integer parts.
FrameMaterial(frame_runs) ==
    LET runs == IF frame_runs = << >>
                THEN << [ rgb |-> << 50, 50, 50 >>, n |-> 1 ] >>
                ELSE frame_runs
        N    == Count(runs)
        S(c) == ChannelSum(runs, c)
        V(c) == N * ChannelSumSq(runs, c) - S(c) * S(c)
        L    == Lum3Sum(runs)
        VL   == N * Lum3SumSq(runs) - L * L
        avg_std_lt_25     == ISqrt(V(1)) + ISqrt(V(2)) + ISqrt(V(3)) < 75 * N
        brightness_std_gt(t) == VL > 9 * t * t * N * N
        mean_gt_150       == L > 450 * N
        rgb_std_lt_20     ==
            3 * (S(1) * S(1) + S(2) * S(2) + S(3) * S(3))
              - (S(1) + S(2) + S(3)) * (S(1) + S(2) + S(3)) < 3600 * N * N
        is_silver == mean_gt_150 /\ rgb_std_lt_20
        is_gold   == S(1) > S(2) /\ S(2) > S(3) /\ brightness_std_gt(30)
    IN  IF N > 10
        THEN IF is_silver \/ is_gold \/ (avg_std_lt_25 /\ brightness_std_gt(40))
             THEN << "metal", IF is_silver THEN 70 ELSE 50 >>
             ELSE << "plastic", 10 >>
        ELSE << "plastic", 10 >>

\* round(min(0.85, max(0.25, s * 0.5 + 0.3)), 2) with s the HSV saturation.
TintOpacity(rgb) ==
    LET maxc == Max(rgb[1], Max(rgb[2], rgb[3]))
        minc == -Max(-rgb[1], Max(-rgb[2], -rgb[3]))
        \* 100 * (s * 0.5 + 0.3) = num / den
        den  == IF maxc = minc THEN 1 ELSE maxc
        num  == IF maxc = minc THEN 30 ELSE 50 * (maxc - minc) + 30 * maxc
    IN  IF num < 25 * den THEN 25
        ELSE IF num > 85 * den THEN 85
        ELSE RoundHalfEven(num, den)

\* The record extract_glasses_properties returns for the collected lists.
Properties(frame_pixels, frame_colors, lens_colors) ==
    [ lensColor      |-> IF lens_colors # << >> THEN HexColor(MeanColor(lens_colors))
                         ELSE "#3b82f6",
      frameColor     |-> IF frame_colors # << >> THEN HexColor(MeanColor(frame_colors))
                         ELSE "#1a1a1a",
      tintOpacity    |-> IF lens_colors # << >> THEN TintOpacity(MeanColor(lens_colors))
                         ELSE 50,
      frameScale     |-> 100,
      frameMaterial  |-> FrameMaterial(frame_pixels)[1],
      frameMetalness |-> FrameMaterial(frame_pixels)[2] ]

\* extract_glasses_properties(image_paths); imaging is whether PIL and numpy
\* can be imported.
extract_glasses_properties(image_paths, imaging) ==
    IF ~imaging THEN DefaultProperties
    ELSE With(<< all_frame_pixels(image_paths), all_frame_colors(image_paths),
                 all_lens_colors(image_paths) >>,
              LAMBDA lists : Properties(lists[1], lists[2], lists[3]))

(***************************************************************************)
(* analyze_frame_shape                                                     *)
(***************************************************************************)

\* analyze_frame_shape(image); gray holds the measurements on the 100x100
\* grayscale: any_dark is np.any(pixels < 100), rmin..cmax the first and last
\* row and column with a dark pixel, top..right the edge counts in the outer
\* thirds; ok is FALSE when the analysis raises.
\* The analysis with the thresholds of its comment: round below 1.8.
analyze_frame_shape_overlapping(gray, ok) ==
    IF ~ok THEN [ aspect_ratio |-> 150, is_rectangular |-> FALSE, is_round |-> FALSE ]
    ELSE
    LET horizontal_score == gray.top + gray.bottom
        vertical_score   == gray.left + gray.right
        height == gray.rmax - gray.rmin
        width  == gray.cmax - gray.cmin
        num == IF gray.any_dark THEN width ELSE 3
        den == IF gray.any_dark THEN Max(height, 1) ELSE 2
    IN  [ aspect_ratio     |-> RoundHalfEven(100 * num, den),
          is_rectangular   |-> 10 * num > 16 * den
                               /\ 10 * horizontal_score > 8 * vertical_score,
          is_round         |-> 10 * num < 18 * den,
          horizontal_score |-> horizontal_score,
          vertical_score   |-> vertical_score ]

analyze_frame_shape(gray, ok) ==
    IF ~ok THEN [ aspect_ratio |-> 150, is_rectangular |-> FALSE, is_round |-> FALSE ]
    ELSE
    LET horizontal_score == gray.top + gray.bottom
        vertical_score   == gray.left + gray.right
        height == gray.rmax - gray.rmin
        width  == gray.cmax - gray.cmin
        \* aspect_ratio = num / den
        num == IF gray.any_dark THEN width ELSE 3
        den == IF gray.any_dark THEN Max(height, 1) ELSE 2
    IN  [ aspect_ratio     |-> RoundHalfEven(100 * num, den),
          is_rectangular   |-> 10 * num > 16 * den
                               /\ 10 * horizontal_score > 8 * vertical_score,
          is_round         |-> 10 * num < 14 * den,
          horizontal_score |-> horizontal_score,
          vertical_score   |-> vertical_score ]

\* remove_background(image): the image with its background set to white; the
\* input image itself when scipy is missing or the filter raises.  Pixels
\* darker than 200 are kept, so the dark bounding box is the input's.
remove_background(image, scipy_ok) ==
    IF scipy_ok THEN [ image EXCEPT !.cleaned = TRUE ] ELSE image

(***************************************************************************)
(* validate_glasses_image                                                  *)
(***************************************************************************)

None == "None"

MIN_GLASSES_THRESHOLD == 250

\* f"{num/den:.1%}" for num / den in thousandths: percent with one decimal.
Percent1(num, den) ==
    LET p == RoundHalfEven(num, den) IN
    ToString(p \div 10) \o "." \o ToString(p % 10) \o "%"

\* The decision without the minimum threshold.
DecisionWithoutFloor(glasses_scores, non_glasses_scores) ==
    LET n  == Len(glasses_scores)
        sg == SeqSum(glasses_scores)
        so == SeqSum(non_glasses_scores)
        is_valid == sg > so
    IN  [ is_valid   |-> is_valid,
          confidence |-> << sg, n >>,
          reason     |->
             IF is_valid THEN None
             ELSE "Image appears to be something other than glasses (glasses: "
                  \o Percent1(sg, n) \o ", other: " \o Percent1(so, n) \o ")" ]

\* The decision over the per-image sums of probabilities: the returned
\* (is_valid, confidence, rejection_reason), confidence being num / den.
Decision(glasses_scores, non_glasses_scores) ==
    LET n  == Len(glasses_scores)
        sg == SeqSum(glasses_scores)
        so == SeqSum(non_glasses_scores)
        \* avg_glasses_score = sg / n, avg_non_glasses_score = so / n
        is_valid == sg > so /\ sg >= MIN_GLASSES_THRESHOLD * n
    IN  [ is_valid   |-> is_valid,
          confidence |-> << sg, n >>,
          reason     |->
             IF is_valid THEN None
             ELSE IF sg < MIN_GLASSES_THRESHOLD * n
             THEN "Image does not appear to be eyeglasses (confidence: "
                  \o Percent1(sg, n) \o ")"
             ELSE "Image appears to be something other than glasses (glasses: "
                  \o Percent1(sg, n) \o ", other: " \o Percent1(so, n) \o ")" ]

\* A gate that rejects where it cannot decide.
FailClosed == [ is_valid |-> FALSE, confidence |-> << 0, 1 >>,
                reason |-> "Validation unavailable" ]

\* return True, 1.0, None
FailOpen == [ is_valid |-> TRUE, confidence |-> << 1000, 1 >>, reason |-> None ]

\* The images of image_paths that Image.open loads, in order.
Loadable(image_paths) == SelectSeq(image_paths, LAMBDA img : img.loads)

\* validate_glasses_image(image_paths); clip_ok is whether load_clip() gives
\* the model, scoring_ok whether the scoring goes through without raising.
validate_glasses_image(image_paths, clip_ok, scoring_ok) ==
    LET images == Loadable(image_paths) IN
    IF ~clip_ok THEN FailOpen
    ELSE IF images = << >>
    THEN [ is_valid |-> FALSE, confidence |-> << 0, 1 >>,
           reason |-> "Could not load any images" ]
    ELSE IF ~scoring_ok THEN FailOpen
    ELSE Decision([ i \in 1..Len(images) |-> images[i].glasses ],
                  [ i \in 1..Len(images) |-> images[i].others ])

(***************************************************************************)
(* The similarity matcher of clip_match                                    *)
(***************************************************************************)

rectangular_keywords ==
    << << "r", "a", "y", "b", "a", "n" >>,
       << "r", "a", "y", "_", "b", "a", "n" >>,
       << "w", "a", "y", "f", "a", "r", "e", "r" >>,
       << "b", "l", "a", "c", "k", "_", "g", "l", "a", "s", "s", "e", "s" >>,
       << "r", "e", "c", "t", "a", "n", "g", "u", "l", "a", "r" >>,
       << "s", "q", "u", "a", "r", "e" >>,
       << "n", "e", "r", "d" >>,
       << "h", "i", "p", "s", "t", "e", "r" >>,
       << "r", "e", "a", "d", "i", "n", "g" >> >>

round_keywords ==
    << << "r", "o", "u", "n", "d" >>,
       << "c", "i", "r", "c", "l", "e" >>,
       << "m", "e", "t", "a", "l", "_", "r", "o", "u", "n", "d" >>,
       << "l", "e", "n", "n", "o", "n" >>,
       << "v", "i", "n", "t", "a", "g", "e" >> >>

\* The first loop over a keyword list finds a keyword in the lowered name.
HasKeyword(ref_name, keywords) ==
    LET ref_lower == lower(ref_name) IN
    \E k \in 1..Len(keywords) : contains(ref_lower, keywords[k])

\* One adjustment per name: the penalty only where the boost did not apply.
BoostExclusive(ref_name, uploaded_shape) ==
    IF uploaded_shape.is_rectangular
    THEN IF HasKeyword(ref_name, rectangular_keywords) THEN 150
         ELSE IF HasKeyword(ref_name, round_keywords) THEN -100 ELSE 0
    ELSE IF uploaded_shape.is_round
    THEN IF HasKeyword(ref_name, round_keywords) THEN 150
         ELSE IF HasKeyword(ref_name, rectangular_keywords) THEN -100 ELSE 0
    ELSE 0

\* What the boosting loop adds to sims_boosted[i] for one reference name: each
\* of the two inner loops stops at its first hit, and both loops run.
Boost(ref_name, uploaded_shape) ==
    IF uploaded_shape.is_rectangular
    THEN (IF HasKeyword(ref_name, rectangular_keywords) THEN 150 ELSE 0)
         - (IF HasKeyword(ref_name, round_keywords) THEN 100 ELSE 0)
    ELSE IF uploaded_shape.is_round
    THEN (IF HasKeyword(ref_name, round_keywords) THEN 150 ELSE 0)
         - (IF HasKeyword(ref_name, rectangular_keywords) THEN 100 ELSE 0)
    ELSE 0

\* The loop writes sims_boosted[i] for this name.
Touches(ref_name, uploaded_shape) ==
    (uploaded_shape.is_rectangular \/ uploaded_shape.is_round)
    /\ (HasKeyword(ref_name, rectangular_keywords) \/ HasKeyword(ref_name, round_keywords))

\* What the loop over enumerate(ref_filenames) adds, per reference name.
Boosts(ref_filenames, uploaded_shape) ==
    [ i \in 1..Len(ref_filenames) |-> Boost(ref_filenames[i], uploaded_shape) ]

\* sims_boosted after the loop: sims.clone() with the boosts added in place.
BoostedSims(sims, boosts) ==
    [ i \in 1..Len(sims) |-> sims[i] + (IF i <= Len(boosts) THEN boosts[i] ELSE 0) ]

\* torch.argmax over a non-empty vector: the first index of the maximum,
\* counted from 0.
argmax(v) ==
    (CHOOSE i \in 1..Len(v) :
        /\ \A j \in 1..Len(v) : v[j] <= v[i]
        /\ \A j \in 1..(i - 1) : v[j] < v[i]) - 1

\* confidence = (best_score + 1.0) / 2.0, then round(confidence, 3)
Confidence(best_score) == RoundHalfEven(best_score + 1000, 2)

\* The first part of the try block of clip_match, up to the query embedding:
\* exc names the statement that raised ("none" when none did), calls lists
\* the components run, up_imgs the images embedded.
EmbedBlock(image_paths, scipy_ok, embed_ok) ==
    LET bad     == { i \in 1..Len(image_paths) : ~image_paths[i].loads }
        opened  == IF bad = {} THEN Len(image_paths)
                   ELSE (CHOOSE i \in bad : \A j \in bad : i <= j) - 1
        up_imgs == [ i \in 1..opened |-> remove_background(image_paths[i], scipy_ok) ]
        cleaning == [ i \in 1..opened |-> "remove_background" ]
    IN  IF bad # {}
        THEN [ exc |-> "Image.open", calls |-> cleaning, up_imgs |-> up_imgs ]
        ELSE IF up_imgs = << >> \/ ~embed_ok
        THEN [ exc |-> "get_image_features",
               calls |-> cleaning \o << "get_image_features" >>, up_imgs |-> up_imgs ]
        ELSE [ exc |-> "none",
               calls |-> cleaning \o << "get_image_features" >>, up_imgs |-> up_imgs ]

\* The selection with the boosted score kept as best_score.
RankBlockBoostedScore(ref_filenames, sims, uploaded_shape, boosts) ==
    LET sims_boosted == BoostedSims(sims, boosts)
        best_idx     == argmax(sims_boosted)
    IN  IF \E i \in (Len(sims) + 1)..Len(ref_filenames) :
                 Touches(ref_filenames[i], uploaded_shape)
        THEN [ exc |-> "sims_boosted[i]" ]
        ELSE IF sims = << >>
        THEN [ exc |-> "argmax" ]
        ELSE IF best_idx + 1 > Len(ref_filenames)
        THEN [ exc |-> "ref_filenames[best_idx]" ]
        ELSE [ exc        |-> "none",
               best_idx   |-> best_idx,
               best_score |-> sims_boosted[best_idx + 1],
               best_ref   |-> ref_filenames[best_idx + 1] ]

\* The selection in the try block: exc names the statement that raised
\* ("none" when none did), best_idx, best_score and best_ref are the code's.
RankBlock(ref_filenames, sims, uploaded_shape, boosts) ==
    LET sims_boosted == BoostedSims(sims, boosts)
        best_idx     == argmax(sims_boosted)
    IN  IF \E i \in (Len(sims) + 1)..Len(ref_filenames) :
                 Touches(ref_filenames[i], uploaded_shape)
        THEN [ exc |-> "sims_boosted[i]" ]
        ELSE IF sims = << >>
        THEN [ exc |-> "argmax" ]
        ELSE IF best_idx + 1 > Len(ref_filenames)
        THEN [ exc |-> "ref_filenames[best_idx]" ]
        ELSE [ exc        |-> "none",
               best_idx   |-> best_idx,
               best_score |-> sims[best_idx + 1],
               best_ref   |-> ref_filenames[best_idx + 1] ]

\* The record the try block returns.
MatchResult(best_ref, best_score, properties) ==
    properties @@
    [ best_model   |-> splitext(best_ref)[1] \o EXT_GLB,
      confidence   |-> Confidence(best_score),
      source_image |-> best_ref,
      matched      |-> TRUE,
      method       |-> "clip_cached" ]

(***************************************************************************)
(* The inputs: image files, REF_DIR, EMBEDDINGS_FILE, similarity scores    *)
(***************************************************************************)

\* Most image paths one request carries.
MaxImages == 2

White == [ rgb |-> << 250, 250, 250 >>, n |-> 9000 ]

\* A file that Image.open cannot read.
ImgBroken ==
    [ loads |-> FALSE, glasses |-> 0, others |-> 0, cleaned |-> FALSE,
      pixels |-> << >>, center |-> << >>,
      gray |-> [ any_dark |-> FALSE, rmin |-> 0, rmax |-> 0, cmin |-> 0, cmax |-> 0,
                 top |-> 0, bottom |-> 0, left |-> 0, right |-> 0 ] ]

\* Black rectangular frame on white, bluish lenses.
ImgBlackFrame ==
    [ loads |-> TRUE, glasses |-> 900, others |-> 100, cleaned |-> FALSE,
      pixels |-> << White, [ rgb |-> << 20, 20, 20 >>, n |-> 15 ],
                    [ rgb |-> << 40, 42, 44 >>, n |-> 10 ] >>,
      center |-> << [ rgb |-> << 120, 140, 180 >>, n |-> 6 ],
                    [ rgb |-> << 250, 250, 250 >>, n |-> 2000 ] >>,
      gray |-> [ any_dark |-> TRUE, rmin |-> 30, rmax |-> 70, cmin |-> 10, cmax |-> 90,
                 top |-> 60, bottom |-> 60, left |-> 40, right |-> 40 ] ]

\* Round gold frame, a weaker glasses score.
ImgRoundGold ==
    [ loads |-> TRUE, glasses |-> 667, others |-> 333, cleaned |-> FALSE,
      pixels |-> << White, [ rgb |-> << 120, 90, 60 >>, n |-> 8 ],
                    [ rgb |-> << 20, 10, 5 >>, n |-> 8 ] >>,
      center |-> << [ rgb |-> << 200, 180, 90 >>, n |-> 40 ] >>,
      gray |-> [ any_dark |-> TRUE, rmin |-> 20, rmax |-> 80, cmin |-> 20, cmax |-> 80,
                 top |-> 30, bottom |-> 30, left |-> 30, right |-> 30 ] ]

\* Not glasses: a bright picture with exactly 10 dark and 5 tint pixels.
ImgCat ==
    [ loads |-> TRUE, glasses |-> 200, others |-> 800, cleaned |-> FALSE,
      pixels |-> << White, [ rgb |-> << 60, 50, 40 >>, n |-> 10 ] >>,
      center |-> << [ rgb |-> << 150, 120, 100 >>, n |-> 5 ],
                    [ rgb |-> << 250, 250, 250 >>, n |-> 2000 ] >>,
      gray |-> [ any_dark |-> FALSE, rmin |-> 0, rmax |-> 0, cmin |-> 0, cmax |-> 0,
                 top |-> 10, bottom |-> 10, left |-> 50, right |-> 50 ] ]

Images == { ImgBroken, ImgBlackFrame, ImgRoundGold, ImgCat }

ImagePaths == UNION { [ 1..n -> Images ] : n \in 0..MaxImages }

Digits == << "0", "1", "2", "3", "4", "5", "6", "7", "8", "9" >>

\* "refNN.jpg"
RefName(i) ==
    << "r", "e", "f", Digits[(i \div 10) + 1], Digits[(i % 10) + 1] >> \o EXT_JPG

\* The catalog size above which the code names on-the-fly embedding too costly.
ON_THE_FLY_LIMIT == 50

\* n catalog files, listed last name first.
DirOf(n) == [ isdir |-> TRUE, names |-> [ i \in 1..n |-> RefName(n - i) ] ]

DirAbsent == [ isdir |-> FALSE, names |-> << >> ]

DirNoImages == [ isdir |-> TRUE, names |-> << << "n", "o", "t", "e", "s", ".", "t", "x", "t" >> >> ]

DirSmall ==
    [ isdir |-> TRUE,
      names |-> << << "w", "a", "y", "f", "a", "r", "e", "r", ".", "p", "n", "g" >>,
                   << "R", "E", "A", "D", "M", "E", ".", "m", "d" >>,
                   << ".", "p", "n", "g" >>,
                   << "A", "v", "i", "a", "t", "o", "r", ".", "J", "P", "G" >>,
                   << "a", "v", "i", "a", "t", "o", "r", ".", "b", "a", "c", "k", "u", "p" >> >> ]

RefDirs == { DirAbsent, DirNoImages, DirSmall, DirOf(ON_THE_FLY_LIMIT + 1) }

\* States of EMBEDDINGS_FILE: exists is os.path.exists, load_ok whether
\* torch.load returns, has_features and has_filenames whether the loaded dict
\* has the key, rows the number of rows of data["features"].
CacheFile(exists, load_ok, has_features, has_filenames, rows, filenames) ==
    [ exists |-> exists, load_ok |-> load_ok, has_features |-> has_features,
      has_filenames |-> has_filenames, rows |-> rows, filenames |-> filenames ]

\* Cached catalogs: file names without and with shape keywords.
PlainNames == << << "a", "v", "i", "a", "t", "o", "r", "_", "g", "o", "l", "d", ".", "j", "p", "g" >>,
                << "r", "a", "y", "b", "a", "n", "_", "c", "l", "a", "s", "s", "i", "c", ".", "j", "p", "g" >> >>

MixedNames == << << "R", "o", "u", "n", "d", "_", "M", "e", "t", "a", "l", ".", "p", "n", "g" >>,
                << "w", "a", "y", "f", "a", "r", "e", "r", "_", "v", "i", "n", "t", "a", "g", "e", ".", "J", "P", "G" >> >>

CacheFiles ==
    { CacheFile(FALSE, FALSE, FALSE, FALSE, 0, << >>),
      CacheFile(TRUE, FALSE, FALSE, FALSE, 0, << >>),
      CacheFile(TRUE, TRUE, FALSE, TRUE, 0, PlainNames),
      CacheFile(TRUE, TRUE, TRUE, FALSE, 1, << >>),
      CacheFile(TRUE, TRUE, TRUE, TRUE, 0, << >>),
      CacheFile(TRUE, TRUE, TRUE, TRUE, 1, MixedNames),
      CacheFile(TRUE, TRUE, TRUE, TRUE, 2, PlainNames),
      CacheFile(TRUE, TRUE, TRUE, TRUE, 2, MixedNames) }

\* Cosine similarities the query can have with a cached row.
Scores == { -1000, 850, 851, 900, 1000 }

(***************************************************************************)
(* simple_match                                                            *)
(***************************************************************************)

\* The properties simple_match merges into its record.
SimpleMatchProperties(image_paths, imaging) ==
    IF image_paths # << >> THEN extract_glasses_properties(image_paths, imaging)
    ELSE DefaultProperties

\* simple_match without the profile merged into its record.
SimpleMatchResultBare(refs, properties) ==
    IF refs # << >>
    THEN [ best_model   |-> splitext(refs[1])[1] \o EXT_GLB,
           confidence   |-> 600,
           source_image |-> refs[1],
           matched      |-> TRUE,
           method       |-> "fallback" ]
    ELSE [ best_model   |-> << "d", "e", "f", "a", "u", "l", "t" >> \o EXT_GLB,
           confidence   |-> 500,
           source_image |-> << "n", "o", "n", "e" >>,
           matched      |-> TRUE,
           method       |-> "default" ]

\* The record simple_match returns for the catalog refs.
SimpleMatchResult(refs, properties) ==
    IF refs # << >>
    THEN properties @@
         [ best_model   |-> splitext(refs[1])[1] \o EXT_GLB,
           confidence   |-> 600,
           source_image |-> refs[1],
           matched      |-> TRUE,
           method       |-> "fallback" ]
    ELSE properties @@
         [ best_model   |-> << "d", "e", "f", "a", "u", "l", "t" >> \o EXT_GLB,
           confidence   |-> 500,
           source_image |-> << "n", "o", "n", "e" >>,
           matched      |-> TRUE,
           method       |-> "default" ]

\* simple_match(image_paths) with REF_DIR in state dir.
simple_match(image_paths, dir, imaging) ==
    SimpleMatchResult(list_refs(dir), SimpleMatchProperties(image_paths, imaging))

(***************************************************************************)
(* clip_match as a state machine                                           *)
(***************************************************************************)

VARIABLES
    image_paths,     \* the argument of clip_match
    imaging,         \* PIL and numpy can be imported in this process
    pc,              \* the statement clip_match is at
    gate_env,        \* what the validation gate met: load_clip and scoring outcomes
    validation,      \* (is_valid, validation_confidence, rejection_reason)
    loaded,          \* load_clip() of clip_match returned the model
    ref_dir,         \* the state of REF_DIR when list_refs read it
    cache_file,      \* the state of EMBEDDINGS_FILE when clip_match read it
    ref_feats,       \* None (loaded = FALSE) or the cached features
    ref_filenames,
    sims,            \* the raw similarity of the query to each cached row
    sims_boosted,    \* sims with the shape adjustments of the boosting loop
    embed_ok,        \* the processor and the model ran without raising
    uploaded_shape,
    best_idx,
    exc,             \* the statement whose exception the except clause caught
    result,          \* the record clip_match returns
    trace,           \* the components run so far, in order
    glasses_scores,  \* the per-image probability sums the gate averaged
    non_glasses_scores,
    shape_in         \* the measurements analyze_frame_shape worked on

vars == << image_paths, imaging, pc, gate_env, validation, loaded, ref_dir,
           cache_file, ref_feats, ref_filenames, sims, sims_boosted, embed_ok,
           uploaded_shape,
           best_idx, exc, result, trace, glasses_scores, non_glasses_scores,
           shape_in >>

\* A variable no statement has assigned yet.
Unset == [ unset |-> TRUE ]

NoFeats == [ loaded |-> FALSE, rows |-> 0 ]

Blank ==
    /\ gate_env = Unset
    /\ validation = Unset
    /\ loaded = FALSE
    /\ ref_dir = Unset
    /\ cache_file = Unset
    /\ ref_feats = NoFeats
    /\ ref_filenames = << >>
    /\ sims = << >>
    /\ sims_boosted = << >>
    /\ embed_ok = TRUE
    /\ uploaded_shape = Unset
    /\ best_idx = -1
    /\ exc = "none"
    /\ result = Unset
    /\ trace = << >>

Init ==
    /\ image_paths \in ImagePaths
    /\ imaging \in BOOLEAN
    /\ pc = "validate"
    /\ glasses_scores = << >>
    /\ non_glasses_scores = << >>
    /\ shape_in = Unset
    /\ Blank

\* load_clip() can return the model only where PIL can be imported.
LoadClipOutcomes == IF imaging THEN BOOLEAN ELSE { FALSE }

\* clip_match going on to the matcher whatever the gate answered.
AfterValidationIgnored(v) == "load_clip"

\* Where clip_match goes after the gate's answer.
AfterValidation(v) == IF ~v.is_valid THEN "rejected" ELSE "load_clip"

\* is_valid, validation_confidence, rejection_reason = validate_glasses_image(image_paths)
Validate ==
    /\ pc = "validate"
    /\ \E clip_ok \in LoadClipOutcomes, scoring_ok \in BOOLEAN :
       \E v \in { validate_glasses_image(image_paths, clip_ok, scoring_ok) } :
       \E images \in { IF clip_ok /\ scoring_ok THEN Loadable(image_paths) ELSE << >> } :
         /\ gate_env' = [ clip_ok |-> clip_ok, scoring_ok |-> scoring_ok ]
         /\ validation' = v
         /\ glasses_scores' = [ i \in 1..Len(images) |-> images[i].glasses ]
         /\ non_glasses_scores' = [ i \in 1..Len(images) |-> images[i].others ]
         /\ pc' = AfterValidation(v)
    /\ trace' = Append(trace, "validate_glasses_image")
    /\ UNCHANGED << image_paths, imaging, loaded, ref_dir, cache_file, ref_feats,
                    ref_filenames, sims, sims_boosted, embed_ok, uploaded_shape, best_idx, exc,
                    result, shape_in >>

\* The record returned when the gate says invalid.
Rejection(v) ==
    [ error   |-> v.reason,
      matched |-> FALSE,
      method  |-> "validation_rejected",
      validation_confidence |-> RoundHalfEven(v.confidence[1], v.confidence[2]) ]

\* if not is_valid: return {...}
Reject ==
    /\ pc = "rejected"
    /\ result' = Rejection(validation)
    /\ pc' = "done"
    /\ UNCHANGED << image_paths, imaging, gate_env, validation, loaded, ref_dir,
                    cache_file, ref_feats, ref_filenames, sims, sims_boosted, embed_ok,
                    uploaded_shape, best_idx, exc, trace, glasses_scores,
                    non_glasses_scores, shape_in >>

\* The components a call of simple_match runs.
SimpleMatchCalls ==
    IF image_paths # << >> THEN << "simple_match", "extract_glasses_properties" >>
    ELSE << "simple_match" >>

\* An on-the-fly embedding of a small catalog instead of the simple match.
OnNoCacheEmbedSmall(refs, properties) ==
    IF Len(refs) > ON_THE_FLY_LIMIT
    THEN SimpleMatchResult(refs, properties)
    ELSE [ SimpleMatchResult(refs, properties) EXCEPT !.method = "clip_on_the_fly" ]

\* if ref_feats is None: refs = list_refs(); if len(refs) > 50: return
\* simple_match(image_paths); return simple_match(image_paths)
OnNoCache(refs, properties) ==
    IF Len(refs) > ON_THE_FLY_LIMIT
    THEN SimpleMatchResult(refs, properties)
    ELSE SimpleMatchResult(refs, properties)

\* The exception leaving clip_match, for the handler of __main__ to report.
OnExceptionPropagate(refs, properties) ==
    [ error |-> "exception", matched |-> FALSE, method |-> "crash_handler" ]

\* except Exception: return simple_match(image_paths)
OnException(refs, properties) == SimpleMatchResult(refs, properties)

\* return simple_match(image_paths), whatever state REF_DIR is in; calls are
\* the components run before it.
ReturnSimpleMatch(calls) ==
    /\ \E properties \in { SimpleMatchProperties(image_paths, imaging) } :
       \E dir \in RefDirs :
       \E refs \in { list_refs(dir) } :
         /\ ref_dir' = dir
         /\ result' = CASE pc = "match"    -> OnException(refs, properties)
                        [] pc = "no_cache" -> OnNoCache(refs, properties)
                        [] OTHER           -> SimpleMatchResult(refs, properties)
    /\ trace' = trace \o calls \o SimpleMatchCalls
    /\ pc' = "done"

\* loaded = load_clip(); if not loaded: return simple_match(image_paths)
LoadClip ==
    /\ pc = "load_clip"
    /\ \E ok \in LoadClipOutcomes :
         /\ loaded' = ok
         /\ IF ok THEN /\ pc' = "load_cache"
                       /\ UNCHANGED << ref_dir, result, trace >>
            ELSE ReturnSimpleMatch(<< >>)
    /\ UNCHANGED << image_paths, imaging, gate_env, validation, cache_file,
                    ref_feats, ref_filenames, sims, sims_boosted, embed_ok, uploaded_shape,
                    best_idx, exc, glasses_scores, non_glasses_scores, shape_in >>

\* ref_feats after the guarded torch.load: None unless the file exists, loads
\* and has the key "features".
LoadedFeats(file) ==
    IF file.exists /\ file.load_ok /\ file.has_features
    THEN [ loaded |-> TRUE, rows |-> file.rows ]
    ELSE NoFeats

\* ref_filenames after the guarded torch.load: data["filenames"] is read after
\* ref_feats is assigned.
LoadedFilenames(file) ==
    IF file.exists /\ file.load_ok /\ file.has_features /\ file.has_filenames
    THEN file.filenames
    ELSE << >>

\* Where clip_match goes after reading the cache.
AfterCache(feats) == IF ~feats.loaded THEN "no_cache" ELSE "match"

\* if os.path.exists(EMBEDDINGS_FILE): try: data = torch.load(...) ...
LoadCache ==
    /\ pc = "load_cache"
    /\ \E file \in CacheFiles :
         /\ cache_file' = file
         /\ ref_feats' = LoadedFeats(file)
         /\ ref_filenames' = LoadedFilenames(file)
         /\ pc' = AfterCache(LoadedFeats(file))
    /\ UNCHANGED << image_paths, imaging, gate_env, validation, loaded, ref_dir,
                    sims, sims_boosted, embed_ok, uploaded_shape, best_idx, exc, result, trace,
                    glasses_scores, non_glasses_scores, shape_in >>

\* if ref_feats is None: ... return simple_match(image_paths)
NoCache ==
    /\ pc = "no_cache"
    /\ ReturnSimpleMatch(<< >>)
    /\ UNCHANGED << image_paths, imaging, gate_env, validation, loaded, cache_file,
                    ref_feats, ref_filenames, sims, sims_boosted, embed_ok, uploaded_shape,
                    best_idx, exc, glasses_scores, non_glasses_scores, shape_in >>

\* Whether the processor and the model run without raising, where the loop
\* over image_paths gets as far as calling them with an image.
EmbedOutcomes ==
    IF image_paths # << >> /\ \A i \in 1..Len(image_paths) : image_paths[i].loads
    THEN BOOLEAN ELSE { TRUE }

\* try: ... return {...} except Exception: return simple_match(image_paths)
Match ==
    /\ pc = "match"
    /\ \E scipy_ok \in BOOLEAN, e_ok \in EmbedOutcomes :
       \E e \in { EmbedBlock(image_paths, scipy_ok, e_ok) } :
         /\ embed_ok' = e_ok
         /\ IF e.exc # "none"
            THEN /\ exc' = e.exc
                 /\ ReturnSimpleMatch(e.calls)
                 /\ UNCHANGED << sims, sims_boosted, uploaded_shape, shape_in,
                                 best_idx >>
            ELSE \E shape \in { analyze_frame_shape(e.up_imgs[1].gray, TRUE) } :
                 \E boosts \in { Boosts(ref_filenames, shape) } :
                 \E s \in [ 1..ref_feats.rows -> Scores ] :
                 \E m \in { RankBlock(ref_filenames, s, shape, boosts) } :
                 /\ exc' = m.exc
                 /\ sims' = s
                 /\ sims_boosted' = IF m.exc = "sims_boosted[i]" THEN << >>
                                     ELSE BoostedSims(s, boosts)
                 /\ uploaded_shape' = shape
                 /\ shape_in' = e.up_imgs[1].gray
                 /\ IF m.exc = "none"
                    THEN /\ best_idx' = m.best_idx
                         /\ result' = MatchResult(m.best_ref, m.best_score,
                                                  extract_glasses_properties(image_paths, imaging))
                         /\ trace' = trace \o e.calls
                                     \o << "analyze_frame_shape", "extract_glasses_properties" >>
                         /\ pc' = "done"
                         /\ UNCHANGED ref_dir
                    ELSE /\ ReturnSimpleMatch(e.calls \o << "analyze_frame_shape" >>)
                         /\ UNCHANGED best_idx
    /\ UNCHANGED << image_paths, imaging, gate_env, validation, loaded, cache_file,
                    ref_feats, ref_filenames, glasses_scores, non_glasses_scores >>

Next == Validate \/ Reject \/ LoadClip \/ LoadCache \/ NoCache \/ Match

Spec == Init /\ [][Next]_vars

(***************************************************************************)
(* The gate's decision on its own: every pair of score lists               *)
(***************************************************************************)

\* Probability sums the capability can give one image.
GateProbs == { 100, 200, 250, 300, 400 }

InitGate ==
    /\ \E n \in 1..MaxImages :
         /\ glasses_scores \in [ 1..n -> GateProbs ]
         /\ non_glasses_scores \in [ 1..n -> GateProbs ]
    /\ image_paths = << >>
    /\ imaging = TRUE
    /\ pc = "scoring"
    /\ shape_in = Unset
    /\ Blank

\* The averaging and the decision at the end of validate_glasses_image.
Decide ==
    /\ pc = "scoring"
    /\ validation' = Decision(glasses_scores, non_glasses_scores)
    /\ gate_env' = [ clip_ok |-> TRUE, scoring_ok |-> TRUE ]
    /\ pc' = "scored"
    /\ UNCHANGED << image_paths, imaging, loaded, ref_dir, cache_file, ref_feats,
                    ref_filenames, sims, sims_boosted, embed_ok, uploaded_shape, best_idx, exc,
                    result, trace, glasses_scores, non_glasses_scores, shape_in >>

NextGate == Decide

SpecGate == InitGate /\ [][NextGate]_vars

(***************************************************************************)
(* analyze_frame_shape on its own: every measurement                       *)
(***************************************************************************)

DarkRows == { 0, 20, 30, 70 }

DarkCols == { 0, 10, 80, 90 }

EdgeCounts == { 0, 40, 50 }

GrayInputs ==
    { g \in [ any_dark : { TRUE }, rmin : DarkRows, rmax : DarkRows,
              cmin : DarkCols, cmax : DarkCols,
              top : EdgeCounts, bottom : { 0 }, left : EdgeCounts, right : { 0 } ] :
        g.rmin <= g.rmax /\ g.cmin <= g.cmax }
    \cup
    [ any_dark : { FALSE }, rmin : { 0 }, rmax : { 0 }, cmin : { 0 }, cmax : { 0 },
      top : EdgeCounts, bottom : { 0 }, left : EdgeCounts, right : { 0 } ]

InitShape ==
    /\ shape_in \in GrayInputs
    /\ image_paths = << >>
    /\ imaging = TRUE
    /\ pc = "analyze"
    /\ glasses_scores = << >>
    /\ non_glasses_scores = << >>
    /\ Blank

\* uploaded_shape = analyze_frame_shape(image)
Analyze ==
    /\ pc = "analyze"
    /\ \E ok \in BOOLEAN : uploaded_shape' = analyze_frame_shape(shape_in, ok)
    /\ pc' = "analyzed"
    /\ UNCHANGED << image_paths, imaging, gate_env, validation, loaded, ref_dir,
                    cache_file, ref_feats, ref_filenames, sims, sims_boosted, embed_ok, best_idx,
                    exc, result, trace, glasses_scores, non_glasses_scores, shape_in >>

NextShape == Analyze

SpecShape == InitShape /\ [][NextShape]_vars

(***************************************************************************)
(* extract_glasses_properties on its own: every mix of pixel colours       *)
(***************************************************************************)

\* Most runs of equal pixels in the image.
MaxRuns == 3

\* Colours at and around the limits of the frame mask (mean of the channels
\* 10 and 100), dark, gold and bright grey.
PixelColors ==
    { << 10, 10, 10 >>, << 20, 10, 5 >>, << 20, 20, 20 >>, << 120, 90, 60 >>,
      << 99, 99, 99 >>, << 100, 100, 100 >>, << 200, 200, 200 >> }

RunLengths == { 6, 12 }

PixelRuns == [ rgb : PixelColors, n : RunLengths ]

\* An image that loads, with the given pixels and no lens pixels.
ImageOf(runs) ==
    [ loads |-> TRUE, glasses |-> 900, others |-> 100, cleaned |-> FALSE,
      pixels |-> runs, center |-> << >>,
      gray |-> [ any_dark |-> FALSE, rmin |-> 0, rmax |-> 0, cmin |-> 0, cmax |-> 0,
                 top |-> 0, bottom |-> 0, left |-> 0, right |-> 0 ] ]

InitExtract ==
    /\ \E n \in 1..MaxRuns : \E runs \in [ 1..n -> PixelRuns ] :
          image_paths = << ImageOf(runs) >>
    /\ imaging = TRUE
    /\ pc = "extract"
    /\ glasses_scores = << >>
    /\ non_glasses_scores = << >>
    /\ shape_in = Unset
    /\ Blank

\* properties = extract_glasses_properties(image_paths)
Extract ==
    /\ pc = "extract"
    /\ result' = extract_glasses_properties(image_paths, imaging)
    /\ pc' = "extracted"
    /\ UNCHANGED << image_paths, imaging, gate_env, validation, loaded, ref_dir,
                    cache_file, ref_feats, ref_filenames, sims, sims_boosted,
                    embed_ok, uploaded_shape, best_idx, exc, trace, glasses_scores,
                    non_glasses_scores, shape_in >>

NextExtract == Extract

SpecExtract == InitExtract /\ [][NextExtract]_vars

(***************************************************************************)
(* Properties of clip_match                                                *)
(***************************************************************************)

ProfileFields == DOMAIN DefaultProperties

MatchFields == { "best_model", "confidence", "source_image", "matched", "method" }

RejectionFields == { "error", "matched", "method", "validation_confidence" }

\* The profile a result carries.
ProfileOf(r) == [ f \in ProfileFields |-> r[f] ]

Finished == pc = "done"

\* A profile with every field in the range the extractor gives it: colours
\* as strings, the opacity within 0.25..0.85, scale 1.0, plastic with
\* metalness 0.1 or metal with 0.5 or 0.7.
WellFormedProfile(p) ==
    /\ p.lensColor \in STRING
    /\ p.frameColor \in STRING
    /\ p.tintOpacity \in 25..85
    /\ p.frameScale = 100
    /\ \/ p.frameMaterial = "plastic" /\ p.frameMetalness = 10
       \/ p.frameMaterial = "metal" /\ p.frameMetalness \in { 50, 70 }

\* C1 as the specification states it: every result clip_match returns, the
\* rejection included, carries best_model, confidence, source_image, matched,
\* method and the five profile fields.
C1_EveryResultIsMatchResult ==
    Finished =>
        (MatchFields \cup { "lensColor", "frameColor", "tintOpacity",
                            "frameMaterial", "frameMetalness" })
            \subseteq DOMAIN result

\* C1 as the code has it: a fallback, default or clip_cached result carries
\* the five match fields and the whole profile, which is the extracted one or
\* the fixed default; a validation_rejected result carries only error,
\* matched, method and validation_confidence.
C1_ResultShapeByMethod ==
    Finished =>
        IF result.method = "validation_rejected"
        THEN DOMAIN result = RejectionFields
        ELSE /\ result.method \in { "fallback", "default", "clip_cached" }
             /\ DOMAIN result = MatchFields \cup ProfileFields
             /\ { "lensColor", "frameColor", "tintOpacity", "frameMaterial",
                  "frameMetalness" } \subseteq ProfileFields
             /\ WellFormedProfile(ProfileOf(result))
             /\ (image_paths = << >> \/ ~imaging)
                  => ProfileOf(result) = DefaultProperties

\* A request rejected by the gate and one answered by the simple match with an
\* extracted profile are both reachable; this is the rejected one.
C1_RejectedResultReached ==
    /\ Finished
    /\ result.method = "validation_rejected"
    /\ image_paths # << >>
    /\ glasses_scores # << >>

\* C2: the gate is the first component run; when it answers invalid the run
\* goes nowhere but to the rejection record (method validation_rejected,
\* matched false, the gate's confidence to three decimals), and the gate is
\* the only component the run has executed.
C2_RejectionIsImmediate ==
    /\ (trace # << >> /\ pc \notin { "scored", "analyzed" })
          => Head(trace) = "validate_glasses_image"
    /\ (validation # Unset /\ pc \notin { "scored", "analyzed" } /\ ~validation.is_valid)
          => /\ pc \in { "rejected", "done" }
             /\ trace = << "validate_glasses_image" >>
             /\ Finished =>
                  /\ result.method = "validation_rejected"
                  /\ result.matched = FALSE
                  /\ result.error = validation.reason
                  /\ 2 * validation.confidence[2] * result.validation_confidence
                       - 2 * validation.confidence[1] \in
                         (0 - validation.confidence[2]) .. validation.confidence[2]

\* Two images scored by the gate and rejected.
C2_ScoredRejectionReached ==
    /\ Finished
    /\ validation # Unset
    /\ ~validation.is_valid
    /\ Len(glasses_scores) = 2
    /\ result.matched = FALSE

\* The catalog: the names of REF_DIR that list_refs keeps.
Catalog ==
    IF ref_dir.isdir
    THEN { ref_dir.names[i] : i \in { j \in 1..Len(ref_dir.names) :
                                        HasImageExt(ref_dir.names[j]) } }
    ELSE {}

\* name with its extension (the last dot and what follows) removed.
Stem(name) ==
    SubSeq(name, 1,
           (CHOOSE k \in 1..Len(name) :
               name[k] = "." /\ \A j \in (k + 1)..Len(name) : name[j] # ".") - 1)

\* The cache file was there and torch.load or data["features"] raised.
CacheLoadRaised ==
    /\ cache_file # Unset
    /\ cache_file.exists
    /\ ~(cache_file.load_ok /\ cache_file.has_features)

\* The components of the similarity matcher and the attribute extractor's
\* call from the try block.
MatcherRan == \E i \in 1..Len(trace) : trace[i] = "get_image_features"

C4_ClipCachedOnlyWhenAllLoaded ==
    /\ (Finished /\ validation.is_valid
          /\ (~loaded \/ (cache_file # Unset /\ ~ref_feats.loaded)))
         => /\ result.method \in { "fallback", "default" }
            /\ (result.method = "fallback") = (Catalog # {})
            /\ ~MatcherRan
            /\ trace[2] = "simple_match"
    /\ (Finished /\ result.method = "clip_cached")
         => /\ validation.is_valid
            /\ loaded
            /\ cache_file.exists /\ cache_file.load_ok /\ cache_file.has_features
            /\ exc = "none"

\* The capability loaded, the cache file is missing and the catalog has more
\* than 50 images.
C4_NoCacheLargeCatalogReached ==
    /\ Finished
    /\ loaded
    /\ cache_file # Unset
    /\ ~cache_file.exists
    /\ ref_dir.isdir
    /\ Len(SelectSeq(ref_dir.names, HasImageExt)) > ON_THE_FLY_LIMIT
    /\ result.method = "fallback"

\* C5: a simple-match result names the least catalog file name in code-point
\* order, its extension replaced by .glb, with confidence 0.6 and method
\* fallback; with an empty catalog it is default.glb, 0.5 and default; the
\* profile is the extractor's on the request's images, the fixed default when
\* the request has none.
C5_SimpleMatchResult ==
    (Finished /\ result.method \in { "fallback", "default" }) =>
        /\ \A catalog \in { Catalog } :
           IF catalog = {}
           THEN /\ result.method = "default"
                /\ result.best_model = << "d", "e", "f", "a", "u", "l", "t",
                                          ".", "g", "l", "b" >>
                /\ result.confidence = 500
           ELSE /\ result.method = "fallback"
                /\ result.source_image \in catalog
                /\ \A c \in catalog :
                      c = result.source_image \/ StrLess(result.source_image, c)
                /\ result.best_model = Stem(result.source_image)
                                         \o << ".", "g", "l", "b" >>
                /\ result.confidence = 600
        /\ ProfileOf(result) =
             IF image_paths = << >> THEN DefaultProperties
             ELSE extract_glasses_properties(image_paths, imaging)

\* A simple match over a catalog whose listing is not in order, for a request
\* with images.
C5_UnorderedCatalogReached ==
    /\ Finished
    /\ result.method = "fallback"
    /\ ref_dir = DirSmall
    /\ image_paths # << >>
    /\ ProfileOf(result) # DefaultProperties

\* The cache file holds features and as many file names as rows.
CacheComplete ==
    /\ cache_file # Unset
    /\ cache_file.exists /\ cache_file.load_ok
    /\ cache_file.has_features /\ cache_file.has_filenames
    /\ cache_file.rows > 0
    /\ cache_file.rows = Len(cache_file.filenames)

\* C6 as the specification states it: when at least one image of the request
\* loads, the gate passes, the capability loads and embeds, and the cache is
\* complete, the result is the embedding match, images that fail to load
\* being skipped.
C6_UnloadableImageIsSkipped ==
    (Finished /\ gate_env.clip_ok /\ gate_env.scoring_ok /\ validation.is_valid
        /\ loaded /\ CacheComplete /\ embed_ok
        /\ \E i \in 1..Len(image_paths) : image_paths[i].loads)
      => result.method = "clip_cached"

\* C7: the selected index is an argmax of the boosted scores, the result
\* names the file at that index, and the confidence is (raw score + 1) / 2 of
\* that index to three decimals, within 0..1; raw scores 0.9 and 0.85 for a
\* rectangular query where only the second name has a rectangular keyword
\* select index 1 with confidence 0.925.
C7_ArgmaxBoostedConfidenceRaw ==
    (Finished /\ result.method = "clip_cached") =>
        LET boosted == BoostedSims(sims, Boosts(ref_filenames, uploaded_shape)) IN
        /\ best_idx + 1 \in 1..Len(sims)
        /\ \A j \in 1..Len(sims) : boosted[j] <= boosted[best_idx + 1]
        /\ result.source_image = ref_filenames[best_idx + 1]
        /\ 2 * result.confidence - (sims[best_idx + 1] + 1000) \in -1..1
        /\ result.confidence \in 0..1000
        /\ (sims = << 900, 850 >> /\ ref_filenames = PlainNames
              /\ uploaded_shape.is_rectangular)
             => /\ boosted = << 900, 1000 >>
                /\ best_idx = 1
                /\ result.confidence = 925

\* Raw scores 0.9 and 0.85, a rectangular query, only the second name boosted.
C7_BoostChangesSelectionReached ==
    /\ Finished
    /\ result.method = "clip_cached"
    /\ sims = << 900, 850 >>
    /\ ref_filenames = PlainNames
    /\ uploaded_shape.is_rectangular
    /\ best_idx = 1

\* C8: when scoring completes the gate answers valid exactly when the average
\* glasses probability exceeds the average non-glasses probability and is at
\* least 0.25; the confidence is the average glasses probability; the reason
\* is None exactly when valid; below 0.25 the reason states the glasses
\* confidence; 0.4 against 0.3 is valid, 0.2 against 0.1 is not.
C8_GateDecision ==
    (pc = "scored") =>
        LET n  == Len(glasses_scores)
            sg == SeqSum(glasses_scores)
            so == SeqSum(non_glasses_scores)
        IN  /\ validation.is_valid = (sg > so /\ 4 * sg >= 1000 * n)
            /\ validation.confidence = << sg, n >>
            /\ (validation.reason = None) = validation.is_valid
            /\ (~validation.is_valid /\ 4 * sg < 1000 * n)
                 => validation.reason =
                      "Image does not appear to be eyeglasses (confidence: "
                      \o Percent1(sg, n) \o ")"
            /\ (glasses_scores = << 400 >> /\ non_glasses_scores = << 300 >>)
                 => validation.is_valid
            /\ (glasses_scores = << 200 >> /\ non_glasses_scores = << 100 >>)
                 => /\ ~validation.is_valid
                    /\ validation.reason =
                         "Image does not appear to be eyeglasses (confidence: 20.0%)"

\* Glasses 0.2 against non-glasses 0.1: above the other, below the floor.
C8_BelowFloorReached ==
    /\ pc = "scored"
    /\ glasses_scores = << 200 >>
    /\ non_glasses_scores = << 100 >>
    /\ ~validation.is_valid

\* C9: the gate always returns its triple; without the capability it is
\* (True, 1.0, None); with the capability and no image that loads it is
\* (False, 0.0, "Could not load any images"); with the capability, an image
\* that loads and an exception in the scoring it is (True, 1.0, None).
C9_GateFailureModes ==
    (validation # Unset /\ pc \notin { "scored", "analyzed" }) =>
        /\ DOMAIN validation = { "is_valid", "confidence", "reason" }
        /\ validation.is_valid \in BOOLEAN
        /\ ~gate_env.clip_ok
             => /\ validation.is_valid
                /\ validation.confidence = << 1000, 1 >>
                /\ validation.reason = None
        /\ (gate_env.clip_ok /\ \A i \in 1..Len(image_paths) : ~image_paths[i].loads)
             => /\ ~validation.is_valid
                /\ validation.confidence = << 0, 1 >>
                /\ validation.reason = "Could not load any images"
        /\ (gate_env.clip_ok /\ ~gate_env.scoring_ok
              /\ \E i \in 1..Len(image_paths) : image_paths[i].loads)
             => /\ validation.is_valid
                /\ validation.confidence = << 1000, 1 >>
                /\ validation.reason = None

\* The capability is there and both images of the request fail to load.
C9_NoImageLoadsReached ==
    /\ validation # Unset
    /\ pc = "rejected"
    /\ gate_env.clip_ok
    /\ Len(image_paths) = 2
    /\ \A i \in 1..Len(image_paths) : ~image_paths[i].loads
    /\ validation.reason = "Could not load any images"

\* The analysis went through: the record has the edge scores.
Analyzed == pc = "analyzed" /\ "horizontal_score" \in DOMAIN uploaded_shape

Boosted == sims_boosted # << >> /\ Len(ref_filenames) = Len(sims_boosted)

\* The lowered name holds a keyword of the query's shape, or of the other
\* shape; neither when the query is neither rectangular nor round.
OwnKeyword(name) ==
    \/ uploaded_shape.is_rectangular /\ HasKeyword(name, rectangular_keywords)
    \/ ~uploaded_shape.is_rectangular /\ uploaded_shape.is_round
         /\ HasKeyword(name, round_keywords)

OtherKeyword(name) ==
    \/ uploaded_shape.is_rectangular /\ HasKeyword(name, round_keywords)
    \/ ~uploaded_shape.is_rectangular /\ uploaded_shape.is_round
         /\ HasKeyword(name, rectangular_keywords)

\* C11 as the specification states it: each entry gets at most one
\* adjustment: +0.15 when its name holds a keyword of the query's shape, even
\* if it also holds one of the other shape; -0.1 when it holds only a keyword
\* of the other shape; nothing otherwise.
C11_OneAdjustmentPerEntry ==
    Boosted =>
        \A i \in 1..Len(sims_boosted) :
            sims_boosted[i] - sims[i] =
                IF OwnKeyword(ref_filenames[i]) THEN 150
                ELSE IF OtherKeyword(ref_filenames[i]) THEN -100
                ELSE 0

\* C11 as the code has it: +0.15 when the name holds a keyword of the query's
\* shape and, independently, -0.1 when it holds a keyword of the other shape,
\* so a name with both gets +0.05; each at most once per entry; no change for
\* a query that is neither rectangular nor round.
C11_BoostAndPenaltyIndependent ==
    Boosted =>
        /\ \A i \in 1..Len(sims_boosted) :
              sims_boosted[i] - sims[i] =
                  (IF OwnKeyword(ref_filenames[i]) THEN 150 ELSE 0)
                  - (IF OtherKeyword(ref_filenames[i]) THEN 100 ELSE 0)
        /\ (~uploaded_shape.is_rectangular /\ ~uploaded_shape.is_round)
              => sims_boosted = sims
        /\ (ref_filenames = MixedNames /\ uploaded_shape.is_rectangular)
              => /\ sims_boosted[1] = sims[1] - 100
                 /\ sims_boosted[2] = sims[2] + 50
        /\ (ref_filenames = MixedNames /\ uploaded_shape.is_round)
              => /\ sims_boosted[1] = sims[1] + 150
                 /\ sims_boosted[2] = sims[2] + 50

\* A rectangular query against wayfarer_vintage.JPG, a name with a keyword of
\* each shape.
C11_BothKeywordsReached ==
    /\ Boosted
    /\ ref_filenames = MixedNames
    /\ uploaded_shape.is_rectangular
    /\ OwnKeyword(ref_filenames[2])
    /\ OtherKeyword(ref_filenames[2])

\* The profile the aggregation gives when an image that loads adds its frame
\* pixels from frame_least of them on and its lens pixels from lens_least on.
ProfileWithThresholds(paths, frame_least, lens_least) ==
    LET frames == SelectSeq(paths, LAMBDA img :
                      img.loads /\ Count(dark_pixels(img)) >= frame_least)
        lenses == SelectSeq(paths, LAMBDA img :
                      img.loads /\ Count(tint_pixels(img)) >= lens_least)
    IN  Properties(
            Concat([ i \in 1..Len(frames) |-> dark_pixels(frames[i]) ]),
            [ i \in 1..Len(frames) |->
                [ c \in 1..3 |-> MedianInt(dark_pixels(frames[i]), c) ] ],
            [ i \in 1..Len(lenses) |->
                [ c \in 1..3 |-> MeanInt(tint_pixels(lenses[i]), c) ] ])

\* The extractor ran on the request's images and its profile is in the result.
Extracted ==
    /\ Finished
    /\ result.method \in { "fallback", "default", "clip_cached" }
    /\ imaging
    /\ image_paths # << >>

\* C12 as the specification states it: an image is left out of the frame
\* aggregates only below 10 frame pixels and out of the lens aggregate only
\* below 5 lens pixels, so exactly 10 (exactly 5) pixels do count.
C12_TenAndFivePixelsCount ==
    Extracted => ProfileOf(result) = ProfileWithThresholds(image_paths, 10, 5)

\* C12 as the code has it: an image adds to the frame colour and the material
\* statistics only with more than 10 frame pixels and to the lens colour only
\* with more than 5 lens pixels, exactly 10 and exactly 5 being left out; an
\* image that fails to load adds nothing and the call still returns a profile.
C12_MoreThanTenAndFivePixelsCount ==
    Extracted =>
        /\ ProfileOf(result) = ProfileWithThresholds(Loadable(image_paths), 11, 6)
        /\ (\A i \in 1..Len(image_paths) :
               image_paths[i].loads =>
                  /\ Count(dark_pixels(image_paths[i])) <= 10
                  /\ Count(tint_pixels(image_paths[i])) <= 5)
             => ProfileOf(result) = DefaultProperties

\* A request with an image of exactly 10 frame and 5 lens pixels and an image
\* that does not load, answered with the default colours.
C12_ExactlyTenAndFiveReached ==
    /\ Extracted
    /\ \E i \in 1..Len(image_paths) :
          /\ image_paths[i].loads
          /\ Count(dark_pixels(image_paths[i])) = 10
          /\ Count(tint_pixels(image_paths[i])) = 5
    /\ \E i \in 1..Len(image_paths) : ~image_paths[i].loads
    /\ result.frameColor = "#1a1a1a"
    /\ result.lensColor = "#3b82f6"

\* C13: every pixel collected for the frame has a mean of its channels
\* strictly between 10 and 100, so the collected pixels' mean brightness is
\* below 100 and never above 150; the extractor never returns metalness 0.7:
\* metal comes with 0.5 and plastic with 0.1.
C13_NeverSilver ==
    (pc = "extracted") =>
        /\ \A frame \in { all_frame_pixels(image_paths) } :
              /\ \A k \in 1..Len(frame) :
                    /\ frame[k].rgb[1] + frame[k].rgb[2] + frame[k].rgb[3] > 30
                    /\ frame[k].rgb[1] + frame[k].rgb[2] + frame[k].rgb[3] < 300
              /\ frame # << >> => Lum3Sum(frame) < 300 * Count(frame)
        /\ result.frameMetalness # 70
        /\ result.frameMaterial \in { "metal", "plastic" }
        /\ (result.frameMaterial = "metal") = (result.frameMetalness = 50)
        /\ (result.frameMaterial = "plastic") = (result.frameMetalness = 10)

\* An image with enough bright grey pixels to look silver beside a gold
\* frame: the result is metal with metalness 0.5.
C13_BrightGreyBesideGoldReached ==
    /\ pc = "extracted"
    /\ \E k \in 1..Len(image_paths[1].pixels) :
          /\ image_paths[1].pixels[k].rgb = << 200, 200, 200 >>
          /\ image_paths[1].pixels[k].n = 12
    /\ result.frameMaterial = "metal"
    /\ result.frameMetalness = 50

====
